---- MODULE Spec2Model ----
(***************************************************************************)
(* Model of word_extractor.py: the WordExtractor class (text cleaning,     *)
(* per-sentence keyword extraction, accumulation into keyword_list, the    *)
(* popularity/blacklist filter) and main (DataFrame, sort, CSV export).    *)
(*                                                                         *)
(* A Python str is modelled as a tuple of one-character strings, so that   *)
(* str.replace, the `in` test and str.lower are computed character by      *)
(* character.  A dict is modelled as the sequence of its items in          *)
(* insertion order.                                                        *)
(***************************************************************************)
EXTENDS Naturals, Sequences, FiniteSets, TLC

VARIABLES
    caller,                  \* "main": the object is driven by main(); "lib": by a caller of the class
    keyword_limit_in_result, \* self.keyword_limit_in_result
    yake,                    \* self.custom_kw_extractor: cleaned text -> keywords it returns
    keyword_list,            \* self.keyword_list: items in insertion order
    keyword_list_filtered,   \* self.keyword_list_filtered: keys in insertion order (the values are
                             \* the very dict objects of keyword_list)
    pc,                      \* position of the control flow
    error,                   \* the exception that ended the last call, "none" if none
    calls,                   \* the process_file_list calls so far: the file list passed and what
                             \* _get_sentences returned or raised for its files
    sentences,               \* local `sentences` of process_file_list: rows still to process
    cur,                     \* local `row`
    key_words,               \* local `key_words`: words of `row` still to accumulate
    written,                 \* key_words_extracted.csv was written
    output,                  \* data rows of key_words_extracted.csv
    printed,                 \* 'The result csv is ready.' was printed
    arg, once, twice, applied  \* _clean_text applied to `arg` once and then to its own result

vars == <<caller, keyword_limit_in_result, yake, keyword_list, keyword_list_filtered, pc, error,
          calls, sentences, cur, key_words, written, output, printed,
          arg, once, twice, applied>>

extractorVars == <<caller, keyword_limit_in_result, yake, keyword_list, keyword_list_filtered,
                   pc, error, calls, sentences, cur, key_words, written, output, printed>>

cleanVars == <<arg, once, twice, applied>>

----------------------------------------------------------------------------
(* Bounds of the explored inputs *)

MaxCalls == 2        \* process_file_list calls on one WordExtractor
MaxLimit == 2        \* largest keyword_limit_in_final_table tried
MaxFragments == 3    \* fragments concatenated into an input of _clean_text

----------------------------------------------------------------------------
(* Python str operations *)

Range(s) == {s[i] : i \in DOMAIN s}

UpperCase == <<"A","B","C","D","E","F","G","H","I","J","K","L","M",
               "N","O","P","Q","R","S","T","U","V","W","X","Y","Z">>
LowerCase == <<"a","b","c","d","e","f","g","h","i","j","k","l","m",
               "n","o","p","q","r","s","t","u","v","w","x","y","z">>

lower_char(c) ==
    IF \E i \in DOMAIN UpperCase : UpperCase[i] = c
    THEN LowerCase[CHOOSE i \in DOMAIN UpperCase : UpperCase[i] = c]
    ELSE c

\* str.lower() left out
lower_left_out(word) == word

\* str.lower()
lower(word) == [i \in DOMAIN word |-> lower_char(word[i])]

StartsWith(text, old) == Len(text) >= Len(old) /\ SubSeq(text, 1, Len(old)) = old

\* `old in text`
RECURSIVE Contains(_, _)
Contains(text, old) ==
    IF Len(text) < Len(old) THEN FALSE
    ELSE StartsWith(text, old) \/ Contains(Tail(text), old)

\* text.replace(old, new) for a non-empty old: leftmost non-overlapping occurrences, one pass
RECURSIVE replace(_, _, _)
replace(text, old, new) ==
    IF Len(text) < Len(old) THEN text
    ELSE IF StartsWith(text, old)
         THEN new \o replace(SubSeq(text, Len(old) + 1, Len(text)), old, new)
         ELSE <<Head(text)>> \o replace(Tail(text), old, new)

al_Qaeda == <<"a","l"," ","Q","a","e","d","a">>
alqaeda == <<"a","l","q","a","e","d","a">>

_clean_text(text) ==
    IF Contains(text, al_Qaeda) THEN replace(text, al_Qaeda, alqaeda) ELSE text

----------------------------------------------------------------------------
(* _clean_text on its own *)

Fragments == { al_Qaeda, alqaeda,
               <<"l"," ","Q","a","e","d","a">>,
               <<"a","l"," ","Q","a","e","d">>,
               <<"a">>, <<" ">>, <<"x">> }

RECURSIVE Texts(_)
Texts(n) ==
    IF n = 0 THEN {<<>>}
    ELSE Texts(n - 1) \cup {t \o f : t \in Texts(n - 1), f \in Fragments}

----------------------------------------------------------------------------
(* The input universe of the extractor *)

F_a == <<"a",".","t","x","t">>
F_b == <<"b",".","t","x","t">>

\* file lists passed to process_file_list (glob.glob never names a file twice)
FileLists == {<<>>, <<F_a>>, <<F_b, F_a>>}

S_q == <<"a","l"," ","Q","a","e","d","a","!">>
S_g == <<"U","p",".">>
Sentences == {S_q, S_g}

\* _get_sentences(file_name): the sentences of the file, or the read raises
ReadResults == { [ok |-> FALSE, sentences |-> <<>>],
                 [ok |-> TRUE, sentences |-> <<S_g>>],
                 [ok |-> TRUE, sentences |-> <<S_q, S_g>>] }

W_Cloud == <<"C","l","o","u","d">>
W_cloud == <<"c","l","o","u","d">>
W_year == <<"y","e","a","r">>
W_tax == <<"t","a","x">>

\* what custom_kw_extractor.extract_keywords may return for a text
KeywordResults == {<<>>, <<W_tax>>, <<W_year, W_cloud>>, <<W_Cloud, W_tax>>}

\* the texts the keyword extractor is called with
CleanTexts == {_clean_text(s) : s \in Sentences}

\* a keyword extractor returns the same keywords for the same text
Extractors == [CleanTexts -> KeywordResults]

blacklist ==
    <<
       <<"y","e","a","r">>, <<"y","e","a","r","s">>,
       <<"d","a","y">>, <<"t","i","m","e">>,
       <<"m","a","k","e">>, <<"m","a","d","e">>,
       <<"e","a","s","y">>, <<"h","a","r","d">>,
       <<"s","t","o","p">>, <<"g","o","o","d">>,
       <<"l","o","o","k","e","d">>, <<"l","o","n","g">>,
       <<"m","a","k","i","n","g">>, <<"l","e","f","t">>,
       <<"s","t","a","n","d">>, <<"p","a","s","s">>,
       <<"t","r","u","e">>, <<"a","g","o">>,
       <<"l","o","n","g","e","r">>, <<"t","i","m","e","s">>,
       <<"t","u","r","n","e","d">>, <<"g","r","e","a","t","e","r">>,
       <<"a","n","d">>, <<"t","h","i","n","g">>,
       <<"t","o","l","d">>, <<"t","h","o","u","g","h","t">>,
       <<"c","h","a","n","g","e","d">>, <<"w","o","r","d","s">>,
       <<"f","a","c","t">>
    >>

----------------------------------------------------------------------------
(* WordExtractor *)

\* _extract_keywords: the keywords (data[0]) the extractor returns for the cleaned text
_extract_keywords(y, text) == y[_clean_text(text)]

\* _make_sentence_list that skips a file it cannot read
RECURSIVE _make_sentence_list_skipping(_, _)
_make_sentence_list_skipping(fl, rd) ==
    IF fl = <<>> THEN [raised |-> FALSE, sentence_list |-> <<>>]
    ELSE LET rest == _make_sentence_list_skipping(Tail(fl), Tail(rd))
             rows == [s \in DOMAIN Head(rd).sentences |->
                         [sentence |-> Head(rd).sentences[s], source |-> Head(fl)]]
         IN  [raised |-> FALSE,
              sentence_list |-> IF Head(rd).ok THEN rows \o rest.sentence_list
                                ELSE rest.sentence_list]

\* _make_sentence_list that puts the rows of a file before those of the files before it
RECURSIVE _make_sentence_list_prepending(_, _)
_make_sentence_list_prepending(fl, rd) ==
    IF fl = <<>> THEN [raised |-> FALSE, sentence_list |-> <<>>]
    ELSE IF ~Head(rd).ok THEN [raised |-> TRUE, sentence_list |-> <<>>]
    ELSE LET rest == _make_sentence_list_prepending(Tail(fl), Tail(rd))
             rows == [s \in DOMAIN Head(rd).sentences |->
                         [sentence |-> Head(rd).sentences[s], source |-> Head(fl)]]
         IN  IF rest.raised THEN rest
             ELSE [raised |-> FALSE, sentence_list |-> rest.sentence_list \o rows]

\* _make_sentence_list: reads the files in order, the first failing read raises;
\* rd[i] is what _get_sentences gives for fl[i]
RECURSIVE _make_sentence_list(_, _)
_make_sentence_list(fl, rd) ==
    IF fl = <<>> THEN [raised |-> FALSE, sentence_list |-> <<>>]
    ELSE IF ~Head(rd).ok THEN [raised |-> TRUE, sentence_list |-> <<>>]
    ELSE LET rest == _make_sentence_list(Tail(fl), Tail(rd))
             rows == [s \in DOMAIN Head(rd).sentences |->
                         [sentence |-> Head(rd).sentences[s], source |-> Head(fl)]]
         IN  IF rest.raised THEN rest
             ELSE [raised |-> FALSE, sentence_list |-> rows \o rest.sentence_list]

\* the reads made by _make_sentence_list: up to and including the first failing one
RECURSIVE ReadsMade(_)
ReadsMade(rd) ==
    IF rd = <<>> THEN <<>>
    ELSE IF ~Head(rd).ok THEN <<Head(rd)>>
    ELSE <<Head(rd)>> \o ReadsMade(Tail(rd))

\* self.keyword_list.get(word) is truthy
HasKey(kl, word) == \E i \in DOMAIN kl : kl[i].word = word

\* _add_kw_to_dict that appends the sentence only when it is not there yet
_add_kw_to_dict_new_sentence_only(kl, word, source, sentence) ==
    IF HasKey(kl, word)
    THEN [i \in DOMAIN kl |->
            IF kl[i].word = word
            THEN [kl[i] EXCEPT !.count = @ + 1,
                               !.source = IF source \in Range(@) THEN @ ELSE Append(@, source),
                               !.sentence = IF sentence \in Range(@) THEN @
                                            ELSE Append(@, sentence)]
            ELSE kl[i]]
    ELSE Append(kl, [word |-> word, count |-> 1, source |-> <<source>>,
                     sentence |-> <<sentence>>])

\* _add_kw_to_dict without the `source not in` test
_add_kw_to_dict_every_source(kl, word, source, sentence) ==
    IF HasKey(kl, word)
    THEN [i \in DOMAIN kl |->
            IF kl[i].word = word
            THEN [kl[i] EXCEPT !.count = @ + 1,
                               !.source = Append(@, source),
                               !.sentence = Append(@, sentence)]
            ELSE kl[i]]
    ELSE Append(kl, [word |-> word, count |-> 1, source |-> <<source>>,
                     sentence |-> <<sentence>>])

\* _add_kw_to_dict with source and sentence taken for each other
_add_kw_to_dict_swapped(kl, word, source, sentence) ==
    IF HasKey(kl, word)
    THEN [i \in DOMAIN kl |->
            IF kl[i].word = word
            THEN [kl[i] EXCEPT !.count = @ + 1,
                               !.source = IF sentence \in Range(@) THEN @
                                          ELSE Append(@, sentence),
                               !.sentence = Append(@, source)]
            ELSE kl[i]]
    ELSE Append(kl, [word |-> word, count |-> 1, source |-> <<sentence>>,
                     sentence |-> <<source>>])

_add_kw_to_dict(kl, word, source, sentence) ==
    IF HasKey(kl, word)
    THEN [i \in DOMAIN kl |->
            IF kl[i].word = word
            THEN [kl[i] EXCEPT !.count = @ + 1,
                               !.source = IF source \in Range(@) THEN @ ELSE Append(@, source),
                               !.sentence = Append(@, sentence)]
            ELSE kl[i]]
    ELSE Append(kl, [word |-> word, count |-> 1, source |-> <<source>>,
                     sentence |-> <<sentence>>])

\* _filter_rows with > in place of >=
RECURSIVE _filter_rows_above(_, _, _)
_filter_rows_above(kl, flt, limit) ==
    IF kl = <<>> THEN flt
    ELSE IF Head(kl).word \in Range(blacklist) THEN _filter_rows_above(Tail(kl), flt, limit)
    ELSE IF Head(kl).count > limit
         THEN _filter_rows_above(Tail(kl),
                                 IF Head(kl).word \in Range(flt) THEN flt
                                 ELSE Append(flt, Head(kl).word),
                                 limit)
         ELSE _filter_rows_above(Tail(kl), flt, limit)

\* _filter_rows: walks keyword_list.items() and sets keyword_list_filtered[k] = v;
\* setting a key that is already there keeps its place
RECURSIVE _filter_rows(_, _, _)
_filter_rows(kl, flt, limit) ==
    IF kl = <<>> THEN flt
    ELSE IF Head(kl).word \in Range(blacklist) THEN _filter_rows(Tail(kl), flt, limit)
    ELSE IF Head(kl).count >= limit
         THEN _filter_rows(Tail(kl),
                           IF Head(kl).word \in Range(flt) THEN flt
                           ELSE Append(flt, Head(kl).word),
                           limit)
         ELSE _filter_rows(Tail(kl), flt, limit)

NoRow == [sentence |-> <<>>, source |-> <<>>]

\* where the loops of process_file_list go next
NextPc(kws, rows) ==
    IF kws # <<>> THEN "add" ELSE IF rows # <<>> THEN "extract" ELSE "filter"

----------------------------------------------------------------------------
(* State after WordExtractor.__init__ *)

InitExtractor ==
    /\ keyword_limit_in_result \in 1..MaxLimit
    /\ yake \in Extractors
    /\ keyword_list = <<>>
    /\ keyword_list_filtered = <<>>
    /\ pc = "idle"
    /\ error = "none"
    /\ calls = <<>>
    /\ sentences = <<>>
    /\ cur = NoRow
    /\ key_words = <<>>
    /\ written = FALSE
    /\ output = <<>>
    /\ printed = FALSE

Init ==
    /\ caller \in {"main", "lib"}
    /\ InitExtractor
    /\ arg = <<>> /\ once = <<>> /\ twice = <<>> /\ applied = 0

----------------------------------------------------------------------------
(* process_file_list *)

\* line 121: sentences = self._make_sentence_list(file_list).  main calls it once, with the
\* result of glob; a caller of the class may call it again after it returned or raised.
process_file_list_call(fl, rd) ==
    /\ Len(calls) < MaxCalls
    /\ \/ pc = "idle"
       \/ caller = "lib" /\ pc \in {"returned", "raised"}
    /\ LET made == _make_sentence_list(fl, rd)
       IN  /\ calls' = Append(calls, [file_list |-> fl, reads |-> ReadsMade(rd)])
           /\ cur' = NoRow
           /\ key_words' = <<>>
           /\ IF made.raised
              THEN /\ pc' = "raised"
                   /\ error' = "read"
                   /\ sentences' = <<>>
              ELSE /\ pc' = NextPc(<<>>, made.sentence_list)
                   /\ error' = "none"
                   /\ sentences' = made.sentence_list
    /\ UNCHANGED <<caller, keyword_limit_in_result, yake, keyword_list,
                   keyword_list_filtered, written, output, printed>>
    /\ UNCHANGED cleanVars

\* lines 122-123: key_words = self._extract_keywords(row['sentence']) for the next row
extract_keywords ==
    /\ pc = "extract"
    /\ cur' = Head(sentences)
    /\ sentences' = Tail(sentences)
    /\ key_words' = _extract_keywords(yake, Head(sentences).sentence)
    /\ pc' = NextPc(key_words', sentences')
    /\ UNCHANGED <<caller, keyword_limit_in_result, yake, keyword_list,
                   keyword_list_filtered, error, calls, written, output, printed>>
    /\ UNCHANGED cleanVars

\* lines 124-125: self._add_kw_to_dict(word.lower(), row['source'], row['sentence'])
add_kw ==
    /\ pc = "add"
    /\ keyword_list' = _add_kw_to_dict(keyword_list, lower(Head(key_words)),
                                       cur.source, cur.sentence)
    /\ key_words' = Tail(key_words)
    /\ pc' = NextPc(key_words', sentences)
    /\ UNCHANGED <<caller, keyword_limit_in_result, yake, keyword_list_filtered, error,
                   calls, sentences, cur, written, output, printed>>
    /\ UNCHANGED cleanVars

\* line 126: self._filter_rows(), then process_file_list returns
filter_rows ==
    /\ pc = "filter"
    /\ keyword_list_filtered' =
           _filter_rows(keyword_list, keyword_list_filtered, keyword_limit_in_result)
    /\ pc' = "returned"
    /\ UNCHANGED <<caller, keyword_limit_in_result, yake, keyword_list, error, calls,
                   sentences, cur, key_words, written, output, printed>>
    /\ UNCHANGED cleanVars

----------------------------------------------------------------------------
(* main, lines 136-140 *)

Entry(kl, k) == kl[CHOOSE i \in DOMAIN kl : kl[i].word = k]

\* pd.DataFrame(WE.keyword_list_filtered).transpose(): one row per key, one column per inner
\* key; with no key there is no inner key, hence no column
DataFrame(flt, kl) ==
    [columns |-> IF flt = <<>> THEN {} ELSE {"count", "source", "sentence"},
     rows |-> [i \in DOMAIN flt |-> Entry(kl, flt[i])]]

IsPermutation(f, n) == \A j \in 1..n : \E i \in 1..n : f[i] = j

\* sort_values with ascending=True
sort_values_ascending(df) ==
    { [i \in DOMAIN df.rows |-> df.rows[f[i]]] :
        f \in { g \in [DOMAIN df.rows -> DOMAIN df.rows] :
                  /\ IsPermutation(g, Len(df.rows))
                  /\ \A i, j \in DOMAIN df.rows :
                        i < j => df.rows[g[i]].count <= df.rows[g[j]].count } }

\* df.sort_values(by=['count'], ascending=False): the row orders the default (unstable)
\* sort may produce
sort_values(df) ==
    { [i \in DOMAIN df.rows |-> df.rows[f[i]]] :
        f \in { g \in [DOMAIN df.rows -> DOMAIN df.rows] :
                  /\ IsPermutation(g, Len(df.rows))
                  /\ \A i, j \in DOMAIN df.rows :
                        i < j => df.rows[g[i]].count >= df.rows[g[j]].count } }

\* lines 136-140; sort_values raises KeyError: 'count' on a frame without that column
main_report ==
    /\ caller = "main"
    /\ pc = "returned"
    /\ LET df == DataFrame(keyword_list_filtered, keyword_list)
       IN  IF "count" \notin df.columns
           THEN /\ pc' = "raised"
                /\ error' = "KeyError"
                /\ UNCHANGED <<written, output, printed>>
           ELSE /\ \E sorted \in sort_values(df) : output' = sorted
                /\ written' = TRUE
                /\ printed' = TRUE
                /\ pc' = "done"
                /\ UNCHANGED error
    /\ UNCHANGED <<caller, keyword_limit_in_result, yake, keyword_list,
                   keyword_list_filtered, calls, sentences, cur, key_words>>
    /\ UNCHANGED cleanVars

Next ==
    \/ \E fl \in FileLists : \E rd \in [DOMAIN fl -> ReadResults] :
           process_file_list_call(fl, rd)
    \/ extract_keywords
    \/ add_kw
    \/ filter_rows
    \/ main_report

Spec == Init /\ [][Next]_vars

----------------------------------------------------------------------------
(* _clean_text applied to a text and then to its own result *)

InitCleanText ==
    /\ caller = "lib"
    /\ InitExtractor
    /\ keyword_limit_in_result = 1
    /\ yake = [t \in CleanTexts |-> <<>>]
    /\ arg \in Texts(MaxFragments)
    /\ once = <<>> /\ twice = <<>> /\ applied = 0

clean_first ==
    /\ applied = 0
    /\ once' = _clean_text(arg)
    /\ applied' = 1
    /\ UNCHANGED <<arg, twice>>
    /\ UNCHANGED extractorVars

clean_again ==
    /\ applied = 1
    /\ twice' = _clean_text(once)
    /\ applied' = 2
    /\ UNCHANGED <<arg, once>>
    /\ UNCHANGED extractorVars

NextClean == clean_first \/ clean_again

SpecClean == InitCleanText /\ [][NextClean]_vars

----------------------------------------------------------------------------
(* What the inputs say was accumulated: the keyword occurrences of the calls so far, by      *)
(* call, position of the file in the file list, position of the sentence in the file and     *)
(* position of the keyword in the extractor's answer.                                        *)

RECURSIVE Concat(_)
Concat(ss) == IF ss = <<>> THEN <<>> ELSE Head(ss) \o Concat(Tail(ss))

Last(s) == s[Len(s)]

CallOk(c) == \A i \in DOMAIN c.reads : c.reads[i].ok

SentenceOccurrences(file, sent) ==
    LET kws == yake[_clean_text(sent)]
    IN  [k \in DOMAIN kws |-> [word |-> kws[k], source |-> file, sentence |-> sent]]

FileOccurrences(c, i) ==
    Concat([s \in DOMAIN c.reads[i].sentences |->
               SentenceOccurrences(c.file_list[i], c.reads[i].sentences[s])])

CallOccurrences(c) ==
    IF CallOk(c) THEN Concat([i \in DOMAIN c.file_list |-> FileOccurrences(c, i)]) ELSE <<>>

Occurrences == Concat([n \in DOMAIN calls |-> CallOccurrences(calls[n])])

RECURSIVE PendingRows(_)
PendingRows(rows) ==
    IF rows = <<>> THEN 0
    ELSE Len(yake[_clean_text(Head(rows).sentence)]) + PendingRows(Tail(rows))

\* occurrences of the current call that are still to be accumulated
Pending == Len(key_words) + PendingRows(sentences)

\* the occurrences accumulated so far, if they are taken in the order of the inputs
Accumulated ==
    IF Pending <= Len(Occurrences)
    THEN SubSeq(Occurrences, 1, Len(Occurrences) - Pending)
    ELSE <<>>

\* equal up to the case of the letters
SameWord(a, b) ==
    /\ Len(a) = Len(b)
    /\ \A i \in DOMAIN a :
          \/ a[i] = b[i]
          \/ \E j \in DOMAIN UpperCase : {a[i], b[i]} = {UpperCase[j], LowerCase[j]}

IsLowerCase(w) == \A i \in DOMAIN w : w[i] \notin Range(UpperCase)

OccurrencesOf(acc, k) == SelectSeq(acc, LAMBDA t : SameWord(t.word, k))

\* the elements of s in order of first occurrence
RECURSIVE FirstOccurrences(_)
FirstOccurrences(s) ==
    IF s = <<>> THEN <<>>
    ELSE LET d == FirstOccurrences(SubSeq(s, 1, Len(s) - 1))
         IN  IF Last(s) \in Range(d) THEN d ELSE Append(d, Last(s))

InputFiles == UNION {Range(calls[n].file_list) : n \in DOMAIN calls}

LastCallFailed == calls # <<>> /\ ~CallOk(Last(calls))

Blacklisted(k) == \E i \in DOMAIN blacklist : blacklist[i] = k

----------------------------------------------------------------------------
(* Claims *)

\* C1: after any sequence of accumulate calls every entry of keyword_list has
\* count = length of its sentence list, and count >= 1.
C1_CountIsSentenceCount ==
    \A i \in DOMAIN keyword_list :
        /\ keyword_list[i].count = Len(keyword_list[i].sentence)
        /\ keyword_list[i].count >= 1

\* an entry accumulated three times or more, with the same sentence more than once
C1_Witness ==
    \E i \in DOMAIN keyword_list :
        /\ keyword_list[i].count >= 3
        /\ Cardinality(Range(keyword_list[i].sentence)) < keyword_list[i].count
        /\ Len(calls) = 2

\* C2: _clean_text applied twice gives the same as applied once, for every input.
C2_Idempotent == applied = 2 => twice = once

\* C3: a run of main in which no entry passes the filter (in particular over an empty file
\* list) completes: it writes a table with no data row and prints the completion message.
C3_EmptyRunCompletes ==
    (/\ caller = "main"
     /\ pc \in {"done", "raised"}
     /\ ~LastCallFailed
     /\ keyword_list_filtered = <<>>)
    => (pc = "done" /\ written /\ output = <<>> /\ printed)

\* C4: when process_file_list returns, a term is in keyword_list_filtered if and only if it
\* is in keyword_list, is not blacklisted and has count >= the limit; the filter leaves
\* keyword_list as it was.
FilterIff ==
    Range(keyword_list_filtered) =
        {keyword_list[i].word : i \in
            {j \in DOMAIN keyword_list :
                /\ ~Blacklisted(keyword_list[j].word)
                /\ keyword_list[j].count >= keyword_limit_in_result}}

C4_FilterIff == [][pc' = "returned" => (FilterIff' /\ keyword_list' = keyword_list)]_vars

\* returned with a term one below the limit left out, a term exactly at the limit kept and
\* a blacklisted term at the limit left out
C4_Witness ==
    /\ pc = "returned"
    /\ \E i \in DOMAIN keyword_list :
          /\ keyword_list[i].count = keyword_limit_in_result - 1
          /\ ~Blacklisted(keyword_list[i].word)
          /\ keyword_list[i].word \notin Range(keyword_list_filtered)
    /\ \E i \in DOMAIN keyword_list :
          /\ keyword_list[i].count = keyword_limit_in_result
          /\ keyword_list[i].word \in Range(keyword_list_filtered)
    /\ \E i \in DOMAIN keyword_list :
          /\ keyword_list[i].count >= keyword_limit_in_result
          /\ keyword_list[i].word = W_year
          /\ keyword_list[i].word \notin Range(keyword_list_filtered)

\* C5: every key of keyword_list is lowercase, no two keys are equal up to case, every
\* accumulated occurrence has its entry, and an entry's count is the number of accumulated
\* occurrences of the term in any casing.
C5_CasingsMerge ==
    LET acc == Accumulated
    IN  /\ \A i \in DOMAIN keyword_list :
              /\ IsLowerCase(keyword_list[i].word)
              /\ keyword_list[i].count = Len(OccurrencesOf(acc, keyword_list[i].word))
              /\ \A j \in DOMAIN keyword_list :
                    SameWord(keyword_list[i].word, keyword_list[j].word) => i = j
        /\ \A n \in DOMAIN acc :
              \E i \in DOMAIN keyword_list : SameWord(acc[n].word, keyword_list[i].word)

\* returned with an entry that merges 'Cloud' and 'cloud'
C5_Witness ==
    /\ pc = "returned"
    /\ \E i \in DOMAIN keyword_list :
          /\ keyword_list[i].word = W_cloud
          /\ keyword_list[i].count >= 2
    /\ LET acc == Accumulated
       IN  /\ \E n \in DOMAIN acc : acc[n].word = W_Cloud
           /\ \E n \in DOMAIN acc : acc[n].word = W_cloud

\* C6: the source list of every entry has no duplicate and holds exactly the files the term
\* was accumulated from, in order of first occurrence.
C6_SourcesOnce ==
    LET acc == Accumulated
    IN  \A i \in DOMAIN keyword_list :
            LET occ == OccurrencesOf(acc, keyword_list[i].word)
                src == keyword_list[i].source
            IN  /\ \A a, b \in DOMAIN src : src[a] = src[b] => a = b
                /\ src = FirstOccurrences([n \in DOMAIN occ |-> occ[n].source])

\* a term accumulated twice from one file and also from another file
C6_Witness ==
    \E i \in DOMAIN keyword_list :
        /\ Len(keyword_list[i].source) = 2
        /\ keyword_list[i].count >= 3

\* C7 as stated: the sources of every entry are a strict subset of the files of the
\* file lists processed.
C7_StrictSubset ==
    \A i \in DOMAIN keyword_list :
        /\ Range(keyword_list[i].source) \subseteq InputFiles
        /\ Range(keyword_list[i].source) # InputFiles

\* C7 amended: the sources of every entry are a subset of the files of the file lists
\* processed (it may be all of them).
C7_Subset ==
    \A i \in DOMAIN keyword_list : Range(keyword_list[i].source) \subseteq InputFiles

\* two files were passed; one term comes from both, another from one only
C7_Witness ==
    /\ Cardinality(InputFiles) = 2
    /\ \E i \in DOMAIN keyword_list : Range(keyword_list[i].source) = InputFiles
    /\ \E i \in DOMAIN keyword_list : Range(keyword_list[i].source) # InputFiles

\* C8: a call in which a read fails raises and changes nothing: keyword_list,
\* keyword_list_filtered and the output stay as they were, nothing is printed, and main
\* does nothing after it.
C8_ReadErrorAborts ==
    [][ /\ LastCallFailed' =>
            /\ pc' = "raised" /\ error' = "read"
            /\ UNCHANGED <<keyword_list, keyword_list_filtered, written, output, printed>>
            /\ ~written' /\ ~printed'
        /\ ~(caller = "main" /\ LastCallFailed) ]_vars

\* main raised on the second file after reading a first file whose sentences have keywords
C8_Witness ==
    /\ caller = "main"
    /\ pc = "raised" /\ error = "read"
    /\ Len(Last(calls).reads) = 2
    /\ Last(calls).reads[1].ok
    /\ \E s \in DOMAIN Last(calls).reads[1].sentences :
          yake[_clean_text(Last(calls).reads[1].sentences[s])] # <<>>
    /\ keyword_list = <<>>

\* C9: the rows of the written table are the entries of the filtered table, one row per
\* term, by count descending.
C9_RowsSorted ==
    pc = "done" =>
        /\ written
        /\ Len(output) = Len(keyword_list_filtered)
        /\ Range(output) = {Entry(keyword_list, k) : k \in Range(keyword_list_filtered)}
        /\ \A i \in 1..(Len(output) - 1) : output[i].count >= output[i + 1].count

\* a table written in another order than the one of the filtered table
C9_Witness ==
    /\ pc = "done"
    /\ Len(output) >= 2
    /\ output[1].count > output[2].count
    /\ output[1].word = keyword_list_filtered[2]

\* C10: accumulation follows the input: the sentence list of every entry is the sentences of
\* the term's occurrences by (call, file position, sentence position, keyword position),
\* and the keys are in order of first occurrence; keyword_list is thus determined by the
\* file lists, the file contents and the extractor's answers.
C10_InputOrder ==
    LET acc == Accumulated
    IN  \A i \in DOMAIN keyword_list :
            LET occ == OccurrencesOf(acc, keyword_list[i].word)
            IN  /\ keyword_list[i].sentence = [n \in DOMAIN occ |-> occ[n].sentence]
                /\ \A j \in DOMAIN keyword_list :
                      i < j => \E n \in DOMAIN acc :
                                  /\ SameWord(acc[n].word, keyword_list[i].word)
                                  /\ \A m \in 1..n :
                                        ~SameWord(acc[m].word, keyword_list[j].word)

\* returned from two files: an entry whose sentences come from both, in two different texts
C10_Witness ==
    /\ pc = "returned"
    /\ Len(Last(calls).file_list) = 2
    /\ \E i \in DOMAIN keyword_list :
          /\ Len(keyword_list[i].source) = 2
          /\ Cardinality(Range(keyword_list[i].sentence)) = 2
          /\ keyword_list[i].sentence[1] # Last(keyword_list[i].sentence)

====
